---- MODULE Spec2Model ----
(***************************************************************************)
(* Model of packages/option/src/index.ts: the Option type (classes Some    *)
(* and None), the constructors some and none, and collect.                 *)
(*                                                                         *)
(* Options are objects on a heap and are named by their reference (their   *)
(* index in the heap), so that "returns this" and "returns other" are      *)
(* statements about identity.  Every method is an operator taking the      *)
(* machine state st = [heap, calls] (calls counts callback invocations)    *)
(* and returning [st, ret].                                                *)
(***************************************************************************)
EXTENDS Integers, Sequences, FiniteSets, TLC

VARIABLES heap, last, col, prog

vars == <<heap, last, col, prog>>

\* Bounds of the model.
MaxVal == 4
MaxHeap == 3
MaxLen == 3

Vals == 1..MaxVal

\* JavaScript values: numbers and arrays, tagged so that they never mix.
Num(n) == [num |-> n]
Arr(s) == [arr |-> s]
NumVals == {Num(n) : n \in Vals}

\* Objects of the two classes.
NoneObj == [tag |-> "None"]
SomeObj(value) == [tag |-> "Some", value |-> value]

\* export const none = new None(): the first object of the heap.
none == 1

Refs == 1..Len(heap)

----------------------------------------------------------------------------
\* Callbacks supplied by the caller.  A callback is data: a table from the
\* numbers to what it returns.  A callback returning an option returns
\* either `none` or a fresh some(u), given as a template object.
Templates == {NoneObj} \cup {SomeObj(v) : v \in NumVals}

Succ(n) == (n % MaxVal) + 1

Preds ==
    { [kind |-> "pred", tbl |-> [n \in Vals |-> b]] : b \in BOOLEAN }
    \cup { [kind |-> "pred", tbl |-> [n \in Vals |-> n <= k]] : k \in 1..(MaxVal - 1) }

Idf == [kind |-> "fn", tbl |-> [n \in Vals |-> n]]

Fns ==
    { Idf, [kind |-> "fn", tbl |-> [n \in Vals |-> Succ(n)]] }
    \cup { [kind |-> "fn", tbl |-> [n \in Vals |-> c]] : c \in {1, MaxVal} }

SomeF == [kind |-> "opt", tbl |-> [n \in Vals |-> SomeObj(Num(n))]]

OptFns ==
    { SomeF,
      [kind |-> "opt", tbl |-> [n \in Vals |-> NoneObj]],
      [kind |-> "opt", tbl |-> [n \in Vals |-> SomeObj(Num(Succ(n)))]],
      [kind |-> "opt", tbl |-> [n \in Vals |-> IF n = 1 THEN NoneObj ELSE SomeObj(Num(n))]],
      [kind |-> "opt", tbl |-> [n \in Vals |-> IF n = 1 THEN SomeObj(Num(MaxVal)) ELSE NoneObj]] }

Thunks == { [kind |-> "thunk", out |-> t] : t \in {NoneObj, SomeObj(Num(1)), SomeObj(Num(MaxVal))} }

NoCb == [kind |-> "nocb"]

\* The argument of a call that passes none.
Undefined == [undefined |-> TRUE]

\* x => f(x).andThen(g)
Compose(f, g) == [kind |-> "compose", f |-> f, g |-> g]

----------------------------------------------------------------------------
RECURSIVE Call(_, _, _)
RECURSIVE andThen(_, _, _)

\* new Some(value), as some(value) does.
some(st, value) ==
    [st |-> [st EXCEPT !.heap = Append(@, SomeObj(value))],
     ret |-> Len(st.heap) + 1]

\* An option-returning callback hands back `none` or some(u).
Yield(st, t) ==
    IF t.tag = "None" THEN [st |-> st, ret |-> none] ELSE some(st, t.value)

\* One invocation of the callback cb on the argument x.
Call(st, cb, x) ==
    LET s1 == [st EXCEPT !.calls = @ + 1] IN
    CASE cb.kind = "pred" -> [st |-> s1, ret |-> cb.tbl[x.num]]
      [] cb.kind = "fn" -> [st |-> s1, ret |-> Num(cb.tbl[x.num])]
      [] cb.kind = "opt" -> Yield(s1, cb.tbl[x.num])
      [] cb.kind = "thunk" -> Yield(s1, cb.out)
      [] cb.kind = "compose" ->
            LET r == Call(s1, cb.f, x) IN andThen(r.st, r.ret, cb.g)

----------------------------------------------------------------------------
\* class Some<T>
Some_isSome(st, this) == [st |-> st, ret |-> TRUE]

Some_isSomeAnd(st, this, fn) == Call(st, fn, st.heap[this].value)

\* Mutant: isNone copied from class None.
Some_isNone_True(st, this) == [st |-> st, ret |-> TRUE]

Some_isNone(st, this) == [st |-> st, ret |-> FALSE]

Some_isNoneOr(st, this, fn) == Call(st, fn, st.heap[this].value)

\* Mutant: and returns the receiver.
Some_and_This(st, this, other) == [st |-> st, ret |-> this]

Some_and(st, this, other) == [st |-> st, ret |-> other]

\* Mutant: andThen runs fn and returns the receiver.
Some_andThen_This(st, this, fn) ==
    [st |-> Call(st, fn, st.heap[this].value).st, ret |-> this]

Some_andThen(st, this, fn) == Call(st, fn, st.heap[this].value)

Some_or(st, this, other) == [st |-> st, ret |-> this]

\* Mutant: orElse evaluates the alternative before it looks at the receiver.
Some_orElse_Eager(st, this, fn) ==
    [st |-> Call(st, fn, Undefined).st, ret |-> this]

Some_orElse(st, this, fn) == [st |-> st, ret |-> this]

\* Mutant: map drops what fn returned.
Some_map_Same(st, this, fn) ==
    LET r == Call(st, fn, st.heap[this].value) IN some(r.st, st.heap[this].value)

\* Mutant: map writes the mapped value into the receiver.
Some_map_InPlace(st, this, fn) ==
    LET r == Call(st, fn, st.heap[this].value) IN
    [st |-> [r.st EXCEPT !.heap[this].value = r.ret], ret |-> this]

Some_map(st, this, fn) ==
    LET r == Call(st, fn, st.heap[this].value) IN some(r.st, r.ret)

\* class None
None_isSome(st, this) == [st |-> st, ret |-> FALSE]

None_isSomeAnd(st, this, fn) == [st |-> st, ret |-> FALSE]

None_isNone(st, this) == [st |-> st, ret |-> TRUE]

\* Mutant: isNoneOr answers as isSomeAnd does.
None_isNoneOr_False(st, this, fn) == [st |-> st, ret |-> FALSE]

None_isNoneOr(st, this, fn) == [st |-> st, ret |-> TRUE]

None_and(st, this, other) == [st |-> st, ret |-> this]

None_andThen(st, this, fn) == [st |-> st, ret |-> this]

\* Mutant: or returns the receiver.
None_or_This(st, this, other) == [st |-> st, ret |-> this]

None_or(st, this, other) == [st |-> st, ret |-> other]

None_orElse(st, this, fn) == Call(st, fn, Undefined)

None_map(st, this, fn) == [st |-> st, ret |-> this]

\* A method call on an Option<T> = Some<T> | None runs the method of the
\* receiver's class.
IsSomeObj(st, this) == st.heap[this].tag = "Some"

isSome(st, this) ==
    IF IsSomeObj(st, this) THEN Some_isSome(st, this) ELSE None_isSome(st, this)

isSomeAnd(st, this, fn) ==
    IF IsSomeObj(st, this) THEN Some_isSomeAnd(st, this, fn) ELSE None_isSomeAnd(st, this, fn)

isNone(st, this) ==
    IF IsSomeObj(st, this) THEN Some_isNone(st, this) ELSE None_isNone(st, this)

isNoneOr(st, this, fn) ==
    IF IsSomeObj(st, this) THEN Some_isNoneOr(st, this, fn) ELSE None_isNoneOr(st, this, fn)

and(st, this, other) ==
    IF IsSomeObj(st, this) THEN Some_and(st, this, other) ELSE None_and(st, this, other)

andThen(st, this, fn) ==
    IF IsSomeObj(st, this) THEN Some_andThen(st, this, fn) ELSE None_andThen(st, this, fn)

or(st, this, other) ==
    IF IsSomeObj(st, this) THEN Some_or(st, this, other) ELSE None_or(st, this, other)

orElse(st, this, fn) ==
    IF IsSomeObj(st, this) THEN Some_orElse(st, this, fn) ELSE None_orElse(st, this, fn)

map(st, this, fn) ==
    IF IsSomeObj(st, this) THEN Some_map(st, this, fn) ELSE None_map(st, this, fn)

----------------------------------------------------------------------------
\* collect, one turn of its for...of loop at a time.  The iterable is lazy:
\* a turn asks its iterator for the next element, and the answer nx is
\* either "done" or the next option.  c is the frame of the call: where it
\* stands (pc) and the local array `result`.
IterDone == [done |-> TRUE]
IterValue(option) == [done |-> FALSE, value |-> option]

collect_begin == [pc |-> "loop", result |-> <<>>]

\* Mutant: the values are put at the front of result.
collect_turn_Unshift(st, c, nx) ==
    IF nx.done
    THEN LET r == some(st, Arr(c.result)) IN
         [st |-> r.st, c |-> [c EXCEPT !.pc = "return"], ret |-> r.ret]
    ELSE LET option == nx.value IN
         IF isNone(st, option).ret
         THEN [st |-> st, c |-> [c EXCEPT !.pc = "return"], ret |-> none]
         ELSE [st |-> st,
               c |-> [c EXCEPT !.result = <<st.heap[option].value>> \o @],
               ret |-> 0]

\* Mutant: a None is remembered and the loop goes on to the end.
collect_turn_NoBreak(st, c, nx) ==
    IF nx.done
    THEN IF c.pc = "loop"
         THEN LET r == some(st, Arr(c.result)) IN
              [st |-> r.st, c |-> [c EXCEPT !.pc = "return"], ret |-> r.ret]
         ELSE [st |-> st, c |-> [c EXCEPT !.pc = "return"], ret |-> none]
    ELSE LET option == nx.value IN
         IF isNone(st, option).ret
         THEN [st |-> st, c |-> [c EXCEPT !.pc = "sawNone"], ret |-> 0]
         ELSE [st |-> st,
               c |-> [c EXCEPT !.result = Append(@, st.heap[option].value)],
               ret |-> 0]

collect_turn(st, c, nx) ==
    IF nx.done
    THEN LET r == some(st, Arr(c.result)) IN
         [st |-> r.st, c |-> [c EXCEPT !.pc = "return"], ret |-> r.ret]
    ELSE LET option == nx.value IN
         IF isNone(st, option).ret
         THEN [st |-> st, c |-> [c EXCEPT !.pc = "return"], ret |-> none]
         ELSE [st |-> st,
               c |-> [c EXCEPT !.result = Append(@, st.heap[option].value)],
               ret |-> 0]

----------------------------------------------------------------------------
\* The state machine: a client that constructs options, keeps them, and
\* calls the methods on them.  `heap` holds the objects the client keeps.
\* `last` records the latest completed call: what was called on what, what
\* it returned (ret: the reference, out: the object returned, bool: a
\* boolean) and how many times callbacks ran during it; while collect runs
\* it says only that.  The client keeps every option a method returns,
\* except the array option collect returns, which it reads and lets go.
\* `col` is the frame of a collect call in progress.  `prog` belongs to the
\* client of MonadSpec below.
St == [heap |-> heap, calls |-> 0]

Idle == [pc |-> "idle"]

Off == [pc |-> "off"]

NoObj == [tag |-> "-"]

Rec(op, this, other, cb, ret, out, bool, calls) ==
    [op |-> op, self |-> this, other |-> other, cb |-> cb, items |-> <<>>,
     ret |-> ret, out |-> out, bool |-> bool, calls |-> calls]

\* A call that returns an option.
Returns(op, this, other, cb, r) ==
    /\ col.pc = "idle"
    /\ Len(r.st.heap) <= MaxHeap
    /\ heap' = r.st.heap
    /\ last' = Rec(op, this, other, cb, r.ret, r.st.heap[r.ret], FALSE, r.st.calls)
    /\ UNCHANGED <<col, prog>>

\* A call that returns a boolean.
Answers(op, this, cb, r) ==
    /\ col.pc = "idle"
    /\ heap' = r.st.heap
    /\ last' = Rec(op, this, 0, cb, 0, NoObj, r.ret, r.st.calls)
    /\ UNCHANGED <<col, prog>>

Init ==
    /\ heap = <<NoneObj>>
    /\ last = Rec("init", 0, 0, NoCb, 0, NoObj, FALSE, 0)
    /\ col = Idle
    /\ prog = Off

DoSome == \E v \in NumVals : Returns("some", 0, 0, NoCb, some(St, v))

DoIsSome == \E o \in Refs : Answers("isSome", o, NoCb, isSome(St, o))

DoIsNone == \E o \in Refs : Answers("isNone", o, NoCb, isNone(St, o))

DoIsSomeAnd ==
    \E o \in Refs, p \in Preds : Answers("isSomeAnd", o, p, isSomeAnd(St, o, p))

DoIsNoneOr ==
    \E o \in Refs, p \in Preds : Answers("isNoneOr", o, p, isNoneOr(St, o, p))

DoAnd == \E o \in Refs, other \in Refs : Returns("and", o, other, NoCb, and(St, o, other))

DoOr == \E o \in Refs, other \in Refs : Returns("or", o, other, NoCb, or(St, o, other))

DoAndThen ==
    \E o \in Refs, f \in OptFns : Returns("andThen", o, 0, f, andThen(St, o, f))

DoOrElse ==
    \E o \in Refs, g \in Thunks : Returns("orElse", o, 0, g, orElse(St, o, g))

DoMap == \E o \in Refs, f \in Fns : Returns("map", o, 0, f, map(St, o, f))

CollectCall ==
    /\ col.pc = "idle"
    /\ col' = [frame |-> collect_begin, pc |-> "run", items |-> <<>>]
    /\ last' = Rec("collecting", 0, 0, NoCb, 0, NoObj, FALSE, 0)
    /\ UNCHANGED <<heap, prog>>

\* What the source may answer to a request: one of the options the client
\* keeps, or, at any point, that it is exhausted (at MaxLen it is).
SourceAnswers(items) ==
    {IterDone} \cup {IterValue(o) : o \in IF Len(items) < MaxLen THEN Refs ELSE {}}

\* One turn of the loop: one request to the source, which notes in
\* col.items the options it has handed out.  The objects the client keeps
\* are the ones it had: the fresh array option is handed back in `last`.
CollectTurn ==
    /\ col.pc = "run"
    /\ \E nx \in SourceAnswers(col.items) :
         LET t == collect_turn(St, col.frame, nx)
             handed == IF nx.done THEN col.items ELSE Append(col.items, nx.value)
         IN
         /\ heap' = SubSeq(t.st.heap, 1, Len(heap))
         /\ IF t.c.pc = "return"
            THEN /\ col' = Idle
                 /\ last' = [Rec("collect", 0, 0, NoCb, t.ret, t.st.heap[t.ret],
                                 FALSE, t.st.calls)
                                EXCEPT !.items = handed]
            ELSE /\ col' = [frame |-> t.c, pc |-> "run", items |-> handed]
                 /\ UNCHANGED last
    /\ UNCHANGED prog

Next ==
    \/ DoSome
    \/ DoIsSome
    \/ DoIsNone
    \/ DoIsSomeAnd
    \/ DoIsNoneOr
    \/ DoAnd
    \/ DoOr
    \/ DoAndThen
    \/ DoOrElse
    \/ DoMap
    \/ CollectCall
    \/ CollectTurn

Spec == Init /\ [][Next]_vars

----------------------------------------------------------------------------
\* A second client, for the laws of andThen.  It draws two callbacks f and
\* g, makes an option o, and runs
\*     r1 = o.andThen(f)        r2 = r1.andThen(g)
\*     r3 = o.andThen(x => f(x).andThen(g))
\*     r4 = o.andThen(some)     r5 = f(v), when o is some(v)
\* keeping every object.
MInit ==
    /\ heap = <<NoneObj>>
    /\ last = Rec("init", 0, 0, NoCb, 0, NoObj, FALSE, 0)
    /\ col = Idle
    /\ \E f \in OptFns, g \in OptFns :
         prog = [pc |-> "new", f |-> f, g |-> g, o |-> 0,
                 r1 |-> 0, r2 |-> 0, r3 |-> 0, r4 |-> 0, r5 |-> 0]

MStep(pc, next, field, r) ==
    /\ prog.pc = pc
    /\ heap' = r.st.heap
    /\ prog' = [prog EXCEPT !.pc = next, ![field] = r.ret]
    /\ UNCHANGED <<last, col>>

MNew ==
    \/ MStep("new", "bind", "o", [st |-> St, ret |-> none])
    \/ \E v \in NumVals : MStep("new", "bind", "o", some(St, v))

MBind == MStep("bind", "bind2", "r1", andThen(St, prog.o, prog.f))

MBind2 == MStep("bind2", "nested", "r2", andThen(St, prog.r1, prog.g))

MNested == MStep("nested", "unit", "r3", andThen(St, prog.o, Compose(prog.f, prog.g)))

MUnit == MStep("unit", "apply", "r4", andThen(St, prog.o, SomeF))

MApply ==
    /\ prog.pc = "apply"
    /\ IF heap[prog.o].tag = "Some"
       THEN MStep("apply", "done", "r5", Call(St, prog.f, heap[prog.o].value))
       ELSE MStep("apply", "done", "r5", [st |-> St, ret |-> 0])

MNext ==
    \/ MNew
    \/ MBind
    \/ MBind2
    \/ MNested
    \/ MUnit
    \/ MApply

MonadSpec == MInit /\ [][MNext]_vars

----------------------------------------------------------------------------
\* Properties.

IsSomeAt(o) == heap[o].tag = "Some"

\* The number a Some<number> holds.
NumAt(o) == heap[o].value.num

C2_Lazy ==
    /\ last.op = "andThen" =>
         IF IsSomeAt(last.self)
         THEN /\ last.calls = 1
              /\ last.out = last.cb.tbl[NumAt(last.self)]
              /\ last.out = NoneObj => last.ret = none
         ELSE /\ last.calls = 0
              /\ last.ret = last.self
              /\ last.out = NoneObj
    /\ last.op = "orElse" =>
         IF IsSomeAt(last.self)
         THEN /\ last.calls = 0
              /\ last.ret = last.self
         ELSE /\ last.calls = 1
              /\ last.out = last.cb.out
              /\ last.out = NoneObj => last.ret = none
    /\ last.calls <= 1

C2_Witness ==
    /\ last.op = "andThen"
    /\ IsSomeAt(last.self)
    /\ last.calls = 1
    /\ last.out.tag = "Some"
    /\ last.out # heap[last.self]
    /\ last.ret # last.self

C4_Map ==
    last.op = "map" =>
        IF IsSomeAt(last.self)
        THEN /\ last.out = SomeObj(Num(last.cb.tbl[NumAt(last.self)]))
             /\ last.calls = 1
             /\ last.cb = Idf => last.out = heap[last.self]
        ELSE /\ last.out = NoneObj
             /\ last.ret = last.self
             /\ last.calls = 0

C4_Witness ==
    /\ last.op = "map"
    /\ IsSomeAt(last.self)
    /\ last.cb # Idf
    /\ last.out.tag = "Some"
    /\ last.out # heap[last.self]

\* C5: some(v).isSomeAnd(p) and some(v).isNoneOr(p) are p(v), with p run
\* once; none.isSomeAnd(p) is false and none.isNoneOr(p) is true, with p not
\* run.
C5_Predicates ==
    /\ last.op = "isSomeAnd" =>
         IF IsSomeAt(last.self)
         THEN last.bool = last.cb.tbl[NumAt(last.self)] /\ last.calls = 1
         ELSE last.bool = FALSE /\ last.calls = 0
    /\ last.op = "isNoneOr" =>
         IF IsSomeAt(last.self)
         THEN last.bool = last.cb.tbl[NumAt(last.self)] /\ last.calls = 1
         ELSE last.bool = TRUE /\ last.calls = 0

C5_Witness ==
    /\ last.op = "isNoneOr"
    /\ IsSomeAt(last.self)
    /\ last.bool = FALSE
    /\ last.calls = 1

\* C6: of every option there is (the ones the client keeps, and the one
\* the latest call returned, collect's included) exactly one of isSome()
\* and isNone() is true; some(v).isSome() and none.isNone() are true.
ExactlyOne(st, o) == isSome(st, o).ret # isNone(st, o).ret

C6_OneVariant ==
    /\ \A o \in Refs : ExactlyOne(St, o)
    /\ isNone(St, none).ret
    /\ last.op = "some" => isSome(St, last.ret).ret
    /\ last.out # NoObj =>
         ExactlyOne([heap |-> Append(heap, last.out), calls |-> 0], Len(heap) + 1)

C6_Witness ==
    /\ last.op = "collect"
    /\ last.out.tag = "Some"
    /\ \E o \in Refs : IsSomeAt(o)

\* C7: collect returns None iff one of the options of its source is None;
\* otherwise it returns Some of their values, as many and in the order of
\* the source; the empty source gives Some of the empty array.
C7_Collect ==
    last.op = "collect" =>
        /\ last.out = NoneObj <=> \E i \in 1..Len(last.items) : ~IsSomeAt(last.items[i])
        /\ last.out # NoneObj =>
             last.out = SomeObj(Arr([i \in 1..Len(last.items) |-> heap[last.items[i]].value]))
        /\ last.items = <<>> => last.out = SomeObj(Arr(<<>>))

C7_Witness ==
    /\ last.op = "collect"
    /\ Len(last.items) = 3
    /\ last.out.tag = "Some"
    /\ last.out.value.arr[1] # last.out.value.arr[2]

\* C8: collect asks its source for one element at a time and asks for
\* nothing after the first None: while the loop runs every option handed
\* out so far is a Some, and when the call has returned only the last
\* option handed out can be a None, and it is one iff None was returned.
C8_ShortCircuit ==
    /\ col.pc = "run" =>
         /\ \A i \in 1..Len(col.items) : IsSomeAt(col.items[i])
         /\ Len(col.frame.result) = Len(col.items)
    /\ last.op = "collect" =>
         /\ \A i \in 1..(Len(last.items) - 1) : IsSomeAt(last.items[i])
         /\ last.out = NoneObj <=>
              (last.items # <<>> /\ ~IsSomeAt(last.items[Len(last.items)]))

C8_Witness ==
    /\ last.op = "collect"
    /\ last.out = NoneObj
    /\ Len(last.items) = 2
    /\ IsSomeAt(last.items[1])
    /\ Len(last.items) < MaxLen

\* C9: no call changes an option that exists: every step leaves each
\* object of the heap as it was, and `none` a None.
C9_Frame ==
    [][/\ \A o \in Refs : o <= Len(heap') /\ heap'[o] = heap[o]
       /\ heap'[none] = NoneObj]_vars

C9_Witness ==
    /\ last.op = "map"
    /\ IsSomeAt(last.self)
    /\ last.ret # last.self
    /\ last.out # heap[last.self]

\* C10: the monad laws of andThen with some: some(v).andThen(f) equals
\* f(v); o.andThen(some) equals o; o.andThen(f).andThen(g) equals
\* o.andThen(x => f(x).andThen(g)); equality by variant and wrapped value.
C10_MonadLaws ==
    prog.pc = "done" =>
        /\ IsSomeAt(prog.o) => heap[prog.r1] = heap[prog.r5]
        /\ heap[prog.r4] = heap[prog.o]
        /\ heap[prog.r2] = heap[prog.r3]

C10_Witness ==
    /\ prog.pc = "done"
    /\ IsSomeAt(prog.o)
    /\ IsSomeAt(prog.r1)
    /\ IsSomeAt(prog.r2)
    /\ heap[prog.r1] # heap[prog.o]
    /\ heap[prog.r2] # heap[prog.r1]

====
